---- MODULE Spec2Model ----
(***************************************************************************)
(* Model of the contacts resource client (src/src/contacts.rs):            *)
(* ContactsService's five operations, the ContactData / ContactChanges     *)
(* builders, their serde serialization and the decoding of the provider's  *)
(* responses.  The dispatcher (Config::build / Config::send) and the       *)
(* remote provider are not part of the file; they are modelled from the    *)
(* specification's collaborator interface and HTTP surface.                *)
(***************************************************************************)
EXTENDS Integers, Sequences, FiniteSets, TLC

VARIABLES
    cd,        \* the ContactData value a builder chain has produced so far
    cc,        \* the ContactChanges value a builder chain has produced so far
    cdArgs,    \* history: the argument last passed to each ContactData mutator
    ccArgs,    \* history: the argument last passed to each ContactChanges mutator
    cdTwice,   \* history: a ContactData mutator was called again with another value
    ccTwice,   \* history: a ContactChanges mutator was called again with another value
    json,      \* the last serialized write body, with the value it came from
    store,     \* provider: audience -> sequence of contact records
    nextId,    \* provider: number of the next contact id to assign
    epoch,     \* history: number of mutations the provider has applied
    ncalls,    \* history: number of operations started
    nfaults,   \* history: number of faults the environment has injected
    pc,        \* caller -> "idle" | "sending" | "receiving" | "reading" | "done"
    call,      \* caller -> the operation in progress and its arguments
    request,   \* caller -> the request handed to the dispatcher's send
    response,  \* caller -> what the dispatcher's send returned, until the operation consumes it
    result,    \* caller -> what the operation returned to the caller
    ghost,     \* caller -> history of the call in progress
    prev,      \* caller -> the caller's previous, completed call
    deleted    \* history: ids whose delete has returned success

builderVars == <<cd, cc, cdArgs, ccArgs, cdTwice, ccTwice, json>>
serviceVars == <<store, nextId, epoch, ncalls, nfaults, pc, call, request, response,
                 result, ghost, prev, deleted>>
vars == <<cd, cc, cdArgs, ccArgs, cdTwice, ccTwice, json, store, nextId, epoch, ncalls, nfaults,
          pc, call,
          request, response, result, ghost, prev, deleted>>

(***************************************************************************)
(* Bounds and input sets.                                                  *)
(***************************************************************************)
NumCallers == 2
MaxCalls == 3
MaxContacts == 2
MaxFaults == 1

Callers == 1..NumCallers
Emails == {"a@b.com", "c@d.com"}
Names == {"Ann", "Zoe"}

(***************************************************************************)
(* Option<T>, Result<T> and JSON values.                                   *)
(***************************************************************************)
None == <<>>
Some(v) == <<v>>
is_none(o) == Len(o) = 0
unwrap(o) == o[1]

Ok(v) == [ok |-> TRUE, value |-> v]
Err(e) == [ok |-> FALSE, error |-> e]

JString(s) == <<"string", s>>
JBool(b) == <<"bool", b>>
JNull == <<"null">>
JArray(xs) == <<"array", xs>>
JsonType(v) == v[1]
EmptyObject == <<>>
Put(obj, k, v) == [x \in (DOMAIN obj) \cup {k} |-> IF x = k THEN v ELSE obj[x]]
Keys(obj) == DOMAIN obj

(***************************************************************************)
(* ContactId.                                                              *)
(***************************************************************************)
ContactId_new(id) == [inner |-> id]
as_ref(contactId) == contactId.inner
Display(contactId) == as_ref(contactId)

(***************************************************************************)
(* ContactData and its builder.                                            *)
(***************************************************************************)
ContactData_new(email) ==
    [email |-> email, first_name |-> None, last_name |-> None, unsubscribed |-> None]

ContactData_with_first_name(self, name) == [self EXCEPT !.first_name = Some(name)]

ContactData_with_last_name_bad(self, name) == [self EXCEPT !.first_name = Some(name)]
ContactData_with_last_name(self, name) == [self EXCEPT !.last_name = Some(name)]

ContactData_with_unsubscribed(self, unsubscribed) ==
    [self EXCEPT !.unsubscribed = Some(unsubscribed)]

(***************************************************************************)
(* ContactChanges and its builder.                                         *)
(***************************************************************************)
ContactChanges_default ==
    [email |-> None, first_name |-> None, last_name |-> None, unsubscribed |-> None]

ContactChanges_new == ContactChanges_default

ContactChanges_with_email(self, email) == [self EXCEPT !.email = Some(email)]

ContactChanges_with_first_name(self, name) == [self EXCEPT !.first_name = Some(name)]

ContactChanges_with_last_name(self, name) == [self EXCEPT !.last_name = Some(name)]

ContactChanges_with_unsubscribed(self, unsubscribed) ==
    [self EXCEPT !.unsubscribed = Some(unsubscribed)]

(***************************************************************************)
(* serde::Serialize as derived for ContactData and ContactChanges: the     *)
(* fields in declaration order, a field skipped when its                   *)
(* skip_serializing_if predicate holds, an Option serialized as null or    *)
(* as its value.                                                           *)
(***************************************************************************)
never_skip(o) == FALSE
skip_serializing_if(o) == is_none(o)

SerializeOptionString(o) == IF is_none(o) THEN JNull ELSE JString(unwrap(o))
SerializeOptionBool(o) == IF is_none(o) THEN JNull ELSE JBool(unwrap(o))

SerializeContactData(d) ==
    LET o1 == Put(EmptyObject, "email", JString(d.email))
        o2 == IF skip_serializing_if(d.first_name) THEN o1
              ELSE Put(o1, "first_name", SerializeOptionString(d.first_name))
        o3 == IF skip_serializing_if(d.last_name) THEN o2
              ELSE Put(o2, "last_name", SerializeOptionString(d.last_name))
        o4 == IF skip_serializing_if(d.unsubscribed) THEN o3
              ELSE Put(o3, "unsubscribed", SerializeOptionBool(d.unsubscribed))
    IN  o4

SerializeContactChanges_defaults(u) ==
    [k \in {"email", "first_name", "last_name", "unsubscribed"} |->
        IF k = "unsubscribed"
        THEN JBool(IF is_none(u[k]) THEN FALSE ELSE unwrap(u[k]))
        ELSE JString(IF is_none(u[k]) THEN "" ELSE unwrap(u[k]))]
SerializeContactChanges(u) ==
    LET o1 == IF skip_serializing_if(u.email) THEN EmptyObject
              ELSE Put(EmptyObject, "email", SerializeOptionString(u.email))
        o2 == IF skip_serializing_if(u.first_name) THEN o1
              ELSE Put(o1, "first_name", SerializeOptionString(u.first_name))
        o3 == IF skip_serializing_if(u.last_name) THEN o2
              ELSE Put(o2, "last_name", SerializeOptionString(u.last_name))
        o4 == IF skip_serializing_if(u.unsubscribed) THEN o3
              ELSE Put(o3, "unsubscribed", SerializeOptionBool(u.unsubscribed))
    IN  o4

(***************************************************************************)
(* serde::Deserialize as derived for the response types: every field is    *)
(* required and typed, unknown keys are ignored.                           *)
(***************************************************************************)
DecodeError == [kind |-> "decode"]

HasString(obj, k) == k \in Keys(obj) /\ JsonType(obj[k]) = "string"
HasBool(obj, k) == k \in Keys(obj) /\ JsonType(obj[k]) = "bool"
HasArray(obj, k) == k \in Keys(obj) /\ JsonType(obj[k]) = "array"

DeserializeCreateContactResponse_wrongKey(body) ==
    IF HasString(body, "object")
    THEN Ok([id |-> ContactId_new(body["object"][2])])
    ELSE Err(DecodeError)
DeserializeCreateContactResponse(body) ==
    IF HasString(body, "id")
    THEN Ok([id |-> ContactId_new(body["id"][2])])
    ELSE Err(DecodeError)

DeserializeUpdateContactResponse(body) ==
    IF HasString(body, "id")
    THEN Ok([id |-> ContactId_new(body["id"][2])])
    ELSE Err(DecodeError)

DeserializeContactLax(obj) ==
    IF HasString(obj, "id") /\ HasString(obj, "email")
    THEN Ok([id |-> ContactId_new(obj["id"][2]),
             email |-> obj["email"][2],
             first_name |-> IF HasString(obj, "first_name") THEN obj["first_name"][2] ELSE "",
             last_name |-> IF HasString(obj, "last_name") THEN obj["last_name"][2] ELSE "",
             unsubscribed |-> IF HasBool(obj, "unsubscribed") THEN obj["unsubscribed"][2] ELSE FALSE,
             created_at |-> IF HasString(obj, "created_at") THEN obj["created_at"][2] ELSE ""])
    ELSE Err(DecodeError)
DeserializeContact(obj) ==
    IF /\ HasString(obj, "id")
       /\ HasString(obj, "email")
       /\ HasString(obj, "first_name")
       /\ HasString(obj, "last_name")
       /\ HasBool(obj, "unsubscribed")
       /\ HasString(obj, "created_at")
    THEN Ok([id |-> ContactId_new(obj["id"][2]),
             email |-> obj["email"][2],
             first_name |-> obj["first_name"][2],
             last_name |-> obj["last_name"][2],
             unsubscribed |-> obj["unsubscribed"][2],
             created_at |-> obj["created_at"][2]])
    ELSE Err(DecodeError)

DeserializeListContactResponse_reversed(body) ==
    IF HasArray(body, "data")
    THEN LET elems == body["data"][2]
         IN  IF \A i \in 1..Len(elems) : DeserializeContact(elems[i]).ok
             THEN Ok([data |-> [i \in 1..Len(elems) |->
                                   DeserializeContact(elems[Len(elems) + 1 - i]).value]])
             ELSE Err(DecodeError)
    ELSE Err(DecodeError)
DeserializeListContactResponse(body) ==
    IF HasArray(body, "data")
    THEN LET elems == body["data"][2]
         IN  IF \A i \in 1..Len(elems) : DeserializeContact(elems[i]).ok
             THEN Ok([data |-> [i \in 1..Len(elems) |-> DeserializeContact(elems[i]).value]])
             ELSE Err(DecodeError)
    ELSE Err(DecodeError)

(***************************************************************************)
(* The dispatcher: Config::build and Config::send, and the request         *)
(* builder's json.  send reports a transport failure or a non-success      *)
(* status as an error and hands any other response on.                     *)
(***************************************************************************)
TransportError == [kind |-> "transport"]
StatusError(code) == [kind |-> "status", code |-> code]

Config_build(method, path) == [method |-> method, path |-> path, body |-> None]
RequestBuilder_json(req, body) == [req EXCEPT !.body = Some(body)]

IsSuccess(status) == status >= 200 /\ status <= 299
Config_send(http) ==
    IF IsSuccess(http.status) THEN Ok(http) ELSE Err(StatusError(http.status))

(***************************************************************************)
(* The remote provider, from the HTTP surface the specification lists.     *)
(* It holds, per audience, the contacts in creation order; it assigns the  *)
(* ids; a PATCH changes the fields its body names and no other.            *)
(***************************************************************************)
ValidAudiences == {"aud_1"}
CreatedAt == "2024-01-01T00:00:00.000Z"
IdOf(n) == "c_" \o ToString(n)

CollectionPath(a) == "/audiences/" \o a \o "/contacts"
ItemPath(a, seg) == "/audiences/" \o a \o "/contacts/" \o seg

ContactJson(r) ==
    [k \in {"object", "id", "email", "first_name", "last_name", "unsubscribed", "created_at"} |->
        CASE k = "object" -> JString("contact")
          [] k = "id" -> JString(r.id)
          [] k = "email" -> JString(r.email)
          [] k = "first_name" -> JString(r.first_name)
          [] k = "last_name" -> JString(r.last_name)
          [] k = "unsubscribed" -> JBool(r.unsubscribed)
          [] k = "created_at" -> JString(r.created_at)]

IdJson(id) == [k \in {"object", "id"} |-> IF k = "id" THEN JString(id) ELSE JString("contact")]

DeletedJson(id) ==
    [k \in {"object", "contact", "deleted"} |->
        CASE k = "object" -> JString("contact")
          [] k = "contact" -> JString(id)
          [] k = "deleted" -> JBool(TRUE)]

ListJson(rs) ==
    [k \in {"object", "data"} |->
        IF k = "data" THEN JArray([i \in 1..Len(rs) |-> ContactJson(rs[i])])
        ELSE JString("list")]

ErrorJson(name) == [k \in {"name"} |-> JString(name)]

Remove(rs, i) == [j \in 1..(Len(rs) - 1) |-> IF j < i THEN rs[j] ELSE rs[j + 1]]

\* The write bodies the provider accepts: typed keys, nothing null.
ValidOptional(body, k, type) == k \in Keys(body) => JsonType(body[k]) = type
ValidWriteBody(body) ==
    /\ ValidOptional(body, "email", "string")
    /\ ValidOptional(body, "first_name", "string")
    /\ ValidOptional(body, "last_name", "string")
    /\ ValidOptional(body, "unsubscribed", "bool")

FieldOr(body, k, default) == IF k \in Keys(body) THEN body[k][2] ELSE default

Reply(status, body, st, n, pre, applied) ==
    [status |-> status, body |-> body, store |-> st, nextId |-> n,
     pre |-> pre, applied |-> applied]
Rejected(status, name, st, n) == Reply(status, ErrorJson(name), st, n, None, FALSE)

ProviderCreate(a, body, st, n, dup) ==
    IF ~ (ValidWriteBody(body) /\ HasString(body, "email"))
    THEN Rejected(422, "validation_error", st, n)
    ELSE LET same == {i \in 1..Len(st[a]) : st[a][i].email = body["email"][2]}
         IN  IF same # {}
             THEN IF dup = "existing"
                  THEN LET i == CHOOSE i \in same : TRUE
                       IN  Reply(200, IdJson(st[a][i].id), st, n, Some(st[a][i]), FALSE)
                  ELSE Rejected(409, "conflict", st, n)
             ELSE LET r == [id |-> IdOf(n),
                            email |-> body["email"][2],
                            first_name |-> FieldOr(body, "first_name", ""),
                            last_name |-> FieldOr(body, "last_name", ""),
                            unsubscribed |-> FieldOr(body, "unsubscribed", FALSE),
                            created_at |-> CreatedAt]
                  IN  Reply(201, IdJson(r.id), [st EXCEPT ![a] = Append(@, r)], n + 1,
                            None, TRUE)

ProviderUpdate(a, i, body, st, n) ==
    IF ~ ValidWriteBody(body)
    THEN Rejected(422, "validation_error", st, n)
    ELSE LET r == st[a][i]
             u == [r EXCEPT !.email = FieldOr(body, "email", r.email),
                            !.first_name = FieldOr(body, "first_name", r.first_name),
                            !.last_name = FieldOr(body, "last_name", r.last_name),
                            !.unsubscribed = FieldOr(body, "unsubscribed", r.unsubscribed)]
         IN  Reply(200, IdJson(r.id), [st EXCEPT ![a][i] = u], n, Some(r), TRUE)

ProviderDelete(a, i, st, n) ==
    Reply(200, DeletedJson(st[a][i].id), [st EXCEPT ![a] = Remove(@, i)], n,
          Some(st[a][i]), TRUE)

ProviderRespond(req, st, n, dup) ==
    LET coll == {a \in DOMAIN st : req.path = CollectionPath(a)}
        byId == {ai \in {<<a, i>> : a \in DOMAIN st, i \in 1..MaxContacts} :
                    /\ ai[2] <= Len(st[ai[1]])
                    /\ req.path = ItemPath(ai[1], st[ai[1]][ai[2]].id)}
        byEmail == {ai \in {<<a, i>> : a \in DOMAIN st, i \in 1..MaxContacts} :
                    /\ ai[2] <= Len(st[ai[1]])
                    /\ req.path = ItemPath(ai[1], st[ai[1]][ai[2]].email)}
    IN  IF coll # {}
        THEN LET a == CHOOSE a \in coll : TRUE
             IN  CASE req.method = "POST" ->
                        IF is_none(req.body)
                        THEN Rejected(422, "validation_error", st, n)
                        ELSE ProviderCreate(a, unwrap(req.body), st, n, dup)
                   [] req.method = "GET" ->
                        Reply(200, ListJson(st[a]), st, n, None, FALSE)
                   [] OTHER -> Rejected(405, "method_not_allowed", st, n)
        ELSE IF byId # {}
        THEN LET ai == CHOOSE ai \in byId : TRUE
                 a == ai[1]
                 i == ai[2]
             IN  CASE req.method = "GET" ->
                        Reply(200, ContactJson(st[a][i]), st, n, Some(st[a][i]), FALSE)
                   [] req.method = "PATCH" ->
                        IF is_none(req.body)
                        THEN Rejected(422, "validation_error", st, n)
                        ELSE ProviderUpdate(a, i, unwrap(req.body), st, n)
                   [] req.method = "DELETE" -> ProviderDelete(a, i, st, n)
                   [] OTHER -> Rejected(405, "method_not_allowed", st, n)
        ELSE IF byEmail # {} /\ req.method = "DELETE"
        THEN LET ai == CHOOSE ai \in byEmail : TRUE
             IN  ProviderDelete(ai[1], ai[2], st, n)
        ELSE Rejected(404, "not_found", st, n)

\* A success body that misses or mistypes a key: the ways a response can fail
\* to have the shape the client decodes.
Drop(obj, k) == [x \in Keys(obj) \ {k} |-> obj[x]]
Damages(body) ==
    {<<"none">>}
    \cup {<<"drop", k>> : k \in Keys(body) \ {"object"}}
    \cup {<<"null", k>> : k \in Keys(body) \ {"object"}}
    \cup (IF HasArray(body, "data")
          THEN {<<"elem", i, k>> : i \in 1..Len(body["data"][2]),
                                   k \in {"id", "email", "first_name", "last_name",
                                          "unsubscribed", "created_at"}}
          ELSE {})
Damage(body, dmg) ==
    CASE dmg[1] = "none" -> body
      [] dmg[1] = "drop" -> Drop(body, dmg[2])
      [] dmg[1] = "null" -> [body EXCEPT ![dmg[2]] = JNull]
      [] dmg[1] = "elem" ->
            [body EXCEPT !["data"] =
                JArray([@[2] EXCEPT ![dmg[2]] = Drop(@, dmg[3])])]

(***************************************************************************)
(* ContactsService: each operation up to its send, and from the value      *)
(* send returned to the value the operation returns.  `decoded` records    *)
(* whether response.json was reached.                                      *)
(***************************************************************************)
Returned(ret, decoded) == [ret |-> ret, decoded |-> decoded]

create_request(audience, contact) ==
    LET path == "/audiences/" \o audience \o "/contacts"
        req == Config_build("POST", path)
    IN  RequestBuilder_json(req, SerializeContactData(contact))

create_result(sent) ==
    IF ~ sent.ok THEN Returned(Err(sent.error), FALSE)
    ELSE LET content == DeserializeCreateContactResponse(sent.value.body)
         IN  IF ~ content.ok THEN Returned(Err(content.error), TRUE)
             ELSE Returned(Ok(content.value.id), TRUE)

get_request_swapped(contact, audience) ==
    LET path == "/audiences/" \o Display(contact) \o "/contacts/" \o audience
    IN  Config_build("GET", path)
get_request(contact, audience) ==
    LET path == "/audiences/" \o audience \o "/contacts/" \o Display(contact)
    IN  Config_build("GET", path)

get_result(sent) ==
    IF ~ sent.ok THEN Returned(Err(sent.error), FALSE)
    ELSE LET content == DeserializeContact(sent.value.body)
         IN  IF ~ content.ok THEN Returned(Err(content.error), TRUE)
             ELSE Returned(Ok(content.value), TRUE)

update_request_put(contact, audience, update) ==
    LET path == "/audiences/" \o audience \o "/contacts/" \o Display(contact)
        req == Config_build("PUT", path)
    IN  RequestBuilder_json(req, SerializeContactChanges(update))
update_request(contact, audience, update) ==
    LET path == "/audiences/" \o audience \o "/contacts/" \o Display(contact)
        req == Config_build("PATCH", path)
    IN  RequestBuilder_json(req, SerializeContactChanges(update))

update_result(sent) ==
    IF ~ sent.ok THEN Returned(Err(sent.error), FALSE)
    ELSE LET content == DeserializeUpdateContactResponse(sent.value.body)
         IN  IF ~ content.ok THEN Returned(Err(content.error), TRUE)
             ELSE Returned(Ok("unit"), TRUE)

\* T: AsRef<str> is a ContactId or a string.
AsRefStr(t) == IF t[1] = "ContactId" THEN as_ref(t[2]) ELSE t[2]

delete_request_noslash(audience, email_or_id) ==
    LET s == AsRefStr(email_or_id)
        path == "/audiences/" \o audience \o "/contacts" \o s
    IN  Config_build("DELETE", path)
delete_request(audience, email_or_id) ==
    LET s == AsRefStr(email_or_id)
        path == "/audiences/" \o audience \o "/contacts/" \o s
    IN  Config_build("DELETE", path)

delete_result(sent) ==
    IF ~ sent.ok THEN Returned(Err(sent.error), FALSE)
    ELSE Returned(Ok("unit"), FALSE)

list_request(audience) ==
    LET path == "/audiences/" \o audience \o "/contacts"
    IN  Config_build("GET", path)

list_result_fallback(sent) ==
    IF ~ sent.ok THEN Returned(Ok(<<>>), FALSE)
    ELSE LET content == DeserializeListContactResponse(sent.value.body)
         IN  IF ~ content.ok THEN Returned(Err(content.error), TRUE)
             ELSE Returned(Ok(content.value.data), TRUE)
list_result(sent) ==
    IF ~ sent.ok THEN Returned(Err(sent.error), FALSE)
    ELSE LET content == DeserializeListContactResponse(sent.value.body)
         IN  IF ~ content.ok THEN Returned(Err(content.error), TRUE)
             ELSE Returned(Ok(content.value.data), TRUE)

(***************************************************************************)
(* Inputs of the operations.                                               *)
(***************************************************************************)
AudienceInputs == ValidAudiences \cup {"aud_9"}
DataInputs ==
    {ContactData_new(e) : e \in Emails}
    \cup {ContactData_with_unsubscribed(
              ContactData_with_last_name(
                  ContactData_with_first_name(ContactData_new("a@b.com"), "Ann"),
                  "Zoe"),
              FALSE)}
ChangesInputs == {ContactChanges_with_unsubscribed(ContactChanges_new, TRUE)}
ContactIdInputs == {ContactId_new(IdOf(n)) : n \in 1..MaxContacts}
DeleteInputs ==
    {<<"ContactId", id>> : id \in ContactIdInputs} \cup {<<"str", e>> : e \in Emails}

NoCall == [op |-> "none"]
NoGhost == [fault |-> "none", applied |-> FALSE, pre |-> None, seen |-> <<>>,
            at |-> 0, sends |-> 0, decoded |-> FALSE, known |-> {}, conc |-> FALSE]

InitBuilder ==
    /\ cd = ContactData_new("a@b.com")
    /\ cc = ContactChanges_new
    /\ cdArgs = ContactData_new("a@b.com")
    /\ ccArgs = ContactChanges_new
    /\ cdTwice = FALSE
    /\ ccTwice = FALSE
    /\ json = None

InitService ==
    /\ store = [a \in ValidAudiences |-> <<>>]
    /\ nextId = 1
    /\ epoch = 0
    /\ ncalls = 0
    /\ nfaults = 0
    /\ pc = [c \in Callers |-> "idle"]
    /\ call = [c \in Callers |-> NoCall]
    /\ request = [c \in Callers |-> None]
    /\ response = [c \in Callers |-> None]
    /\ result = [c \in Callers |-> None]
    /\ ghost = [c \in Callers |-> NoGhost]
    /\ prev = [c \in Callers |-> None]
    /\ deleted = {}

Init == InitBuilder /\ InitService

(***************************************************************************)
(* A caller starts an operation: the operation builds its request and      *)
(* hands it to send.                                                       *)
(***************************************************************************)
PendingCreates == Cardinality({c \in Callers : pc[c] = "sending" /\ call[c].op = "create"})

CreateInFlight(c) ==
    pc[c] \in {"sending", "receiving", "reading"} /\ call[c].op = "create"

Start(c, cl, req) ==
    /\ pc[c] \in {"idle", "done"}
    /\ ncalls < MaxCalls
    /\ ncalls' = ncalls + 1
    /\ prev' = [prev EXCEPT ![c] =
                  IF pc[c] = "done"
                  THEN Some([call |-> call[c], result |-> unwrap(result[c]),
                             at |-> ghost[c].at, pre |-> ghost[c].pre,
                             applied |-> ghost[c].applied])
                  ELSE @]
    /\ call' = [call EXCEPT ![c] = cl]
    /\ request' = [request EXCEPT ![c] = Some(req)]
    /\ response' = [response EXCEPT ![c] = None]
    /\ result' = [result EXCEPT ![c] = None]
    /\ ghost' = [d \in Callers |->
                  IF d = c
                  THEN [NoGhost EXCEPT !.sends = 1, !.known = deleted,
                                       !.conc = /\ cl.op = "create"
                                                /\ \E o \in Callers \ {c} : CreateInFlight(o)]
                  ELSE IF cl.op = "create" /\ CreateInFlight(d)
                  THEN [ghost[d] EXCEPT !.conc = TRUE]
                  ELSE ghost[d]]
    /\ pc' = [pc EXCEPT ![c] = "sending"]
    /\ UNCHANGED <<store, nextId, epoch, nfaults, deleted>>
    /\ UNCHANGED builderVars

create(c) ==
    \E audience \in ValidAudiences, contact \in DataInputs :
        /\ nextId + PendingCreates <= MaxContacts
        /\ Start(c, [op |-> "create", audience |-> audience, contact |-> contact],
                 create_request(audience, contact))

get(c) ==
    \E contact \in ContactIdInputs, audience \in ValidAudiences :
        Start(c, [op |-> "get", audience |-> audience, contact |-> contact],
              get_request(contact, audience))

update(c) ==
    \E contact \in ContactIdInputs, audience \in ValidAudiences, changes \in ChangesInputs :
        Start(c, [op |-> "update", audience |-> audience, contact |-> contact,
                  update |-> changes],
              update_request(contact, audience, changes))

delete(c) ==
    \E audience \in ValidAudiences, email_or_id \in DeleteInputs :
        Start(c, [op |-> "delete", audience |-> audience, email_or_id |-> email_or_id],
              delete_request(audience, email_or_id))

list(c) ==
    \E audience \in AudienceInputs :
        Start(c, [op |-> "list", audience |-> audience], list_request(audience))

(***************************************************************************)
(* The dispatcher's send resolves: the provider handles the request and    *)
(* the response comes back (or is lost), or the request never arrives.     *)
(***************************************************************************)
ProviderHandle(c) ==
    /\ pc[c] = "sending"
    /\ \E dup \in {"existing", "reject"}, lost \in BOOLEAN :
        LET reply == ProviderRespond(unwrap(request[c]), store, nextId, dup)
        IN  \E dmg \in (IF lost \/ ~ IsSuccess(reply.status) \/ nfaults >= MaxFaults
                        THEN {<<"none">>}
                        ELSE Damages(reply.body)) :
            /\ lost => nfaults < MaxFaults
            /\ nfaults' = IF lost \/ dmg # <<"none">> THEN nfaults + 1 ELSE nfaults
            /\ store' = reply.store
            /\ nextId' = reply.nextId
            /\ epoch' = IF reply.applied THEN epoch + 1 ELSE epoch
            /\ response' = [response EXCEPT ![c] =
                  Some(IF lost THEN Err(TransportError)
                       ELSE Config_send([status |-> reply.status,
                                         body |-> Damage(reply.body, dmg)]))]
            /\ ghost' = [ghost EXCEPT ![c] =
                  [@ EXCEPT !.fault = IF lost THEN "transport"
                                      ELSE IF dmg # <<"none">> THEN "body" ELSE "none",
                            !.applied = reply.applied,
                            !.pre = reply.pre,
                            !.seen = store,
                            !.at = epoch']]
    /\ pc' = [pc EXCEPT ![c] = "receiving"]
    /\ UNCHANGED <<ncalls, call, request, result, prev, deleted>>
    /\ UNCHANGED builderVars

TransportFail(c) ==
    /\ pc[c] = "sending"
    /\ nfaults < MaxFaults
    /\ nfaults' = nfaults + 1
    /\ response' = [response EXCEPT ![c] = Some(Err(TransportError))]
    /\ ghost' = [ghost EXCEPT ![c] = [@ EXCEPT !.fault = "transport", !.seen = store,
                                               !.at = epoch]]
    /\ pc' = [pc EXCEPT ![c] = "receiving"]
    /\ UNCHANGED <<store, nextId, epoch, ncalls, call, request, result, prev, deleted>>
    /\ UNCHANGED builderVars

(***************************************************************************)
(* The operation resumes after send: on an error it returns; otherwise     *)
(* create, get, update and list await response.json and return once the    *)
(* body is read, and delete returns.                                       *)
(***************************************************************************)
Finish(c, out) ==
    /\ result' = [result EXCEPT ![c] = Some(out.ret)]
    /\ response' = [response EXCEPT ![c] = None]
    /\ ghost' = [ghost EXCEPT ![c] = [@ EXCEPT !.decoded = out.decoded]]
    /\ pc' = [pc EXCEPT ![c] = "done"]
    /\ deleted' = IF call[c].op = "delete" /\ out.ret.ok /\ ~ is_none(ghost[c].pre)
                  THEN deleted \cup {unwrap(ghost[c].pre).id}
                  ELSE deleted
    /\ UNCHANGED <<store, nextId, epoch, ncalls, nfaults, call, request, prev>>
    /\ UNCHANGED builderVars

\* After send returned a response the operation calls response.json and is
\* suspended a second time, until the body has been read.
ReadBody(c) ==
    /\ pc' = [pc EXCEPT ![c] = "reading"]
    /\ ghost' = [ghost EXCEPT ![c] = [@ EXCEPT !.decoded = TRUE]]
    /\ UNCHANGED <<store, nextId, epoch, ncalls, nfaults, call, request, response,
                   result, prev, deleted>>
    /\ UNCHANGED builderVars

create_resume(c) ==
    /\ pc[c] = "receiving" /\ call[c].op = "create"
    /\ IF unwrap(response[c]).ok
       THEN ReadBody(c)
       ELSE Finish(c, create_result(unwrap(response[c])))

create_return(c) ==
    /\ pc[c] = "reading" /\ call[c].op = "create"
    /\ Finish(c, create_result(unwrap(response[c])))

get_resume(c) ==
    /\ pc[c] = "receiving" /\ call[c].op = "get"
    /\ IF unwrap(response[c]).ok
       THEN ReadBody(c)
       ELSE Finish(c, get_result(unwrap(response[c])))

get_return(c) ==
    /\ pc[c] = "reading" /\ call[c].op = "get"
    /\ Finish(c, get_result(unwrap(response[c])))

update_resume(c) ==
    /\ pc[c] = "receiving" /\ call[c].op = "update"
    /\ IF unwrap(response[c]).ok
       THEN ReadBody(c)
       ELSE Finish(c, update_result(unwrap(response[c])))

update_return(c) ==
    /\ pc[c] = "reading" /\ call[c].op = "update"
    /\ Finish(c, update_result(unwrap(response[c])))

\* delete awaits send only.
delete_return(c) ==
    /\ pc[c] = "receiving" /\ call[c].op = "delete"
    /\ Finish(c, delete_result(unwrap(response[c])))

list_resume(c) ==
    /\ pc[c] = "receiving" /\ call[c].op = "list"
    /\ IF unwrap(response[c]).ok
       THEN ReadBody(c)
       ELSE Finish(c, list_result(unwrap(response[c])))

list_return(c) ==
    /\ pc[c] = "reading" /\ call[c].op = "list"
    /\ Finish(c, list_result(unwrap(response[c])))

Next ==
    \E c \in Callers :
        \/ create(c)
        \/ get(c)
        \/ update(c)
        \/ delete(c)
        \/ list(c)
        \/ ProviderHandle(c)
        \/ TransportFail(c)
        \/ create_resume(c)
        \/ create_return(c)
        \/ get_resume(c)
        \/ get_return(c)
        \/ update_resume(c)
        \/ update_return(c)
        \/ delete_return(c)
        \/ list_resume(c)
        \/ list_return(c)

Spec == Init /\ [][Next]_vars

(***************************************************************************)
(* Builder chains and the serialization of what they built.                *)
(***************************************************************************)
Overwrites(old, new) == ~ is_none(old) /\ old # Some(new)

DataNew ==
    \E email \in Emails :
        /\ cd' = ContactData_new(email)
        /\ cdArgs' = [email |-> email, first_name |-> None, last_name |-> None,
                      unsubscribed |-> None]
        /\ cdTwice' = FALSE
        /\ json' = None
        /\ UNCHANGED <<cc, ccArgs, ccTwice>>
        /\ UNCHANGED serviceVars

DataWithFirstName ==
    \E name \in Names :
        /\ cd' = ContactData_with_first_name(cd, name)
        /\ cdArgs' = [cdArgs EXCEPT !.first_name = Some(name)]
        /\ cdTwice' = (cdTwice \/ Overwrites(cdArgs.first_name, name))
        /\ json' = None
        /\ UNCHANGED <<cc, ccArgs, ccTwice>>
        /\ UNCHANGED serviceVars

DataWithLastName ==
    \E name \in Names :
        /\ cd' = ContactData_with_last_name(cd, name)
        /\ cdArgs' = [cdArgs EXCEPT !.last_name = Some(name)]
        /\ cdTwice' = (cdTwice \/ Overwrites(cdArgs.last_name, name))
        /\ json' = None
        /\ UNCHANGED <<cc, ccArgs, ccTwice>>
        /\ UNCHANGED serviceVars

DataWithUnsubscribed ==
    \E unsubscribed \in BOOLEAN :
        /\ cd' = ContactData_with_unsubscribed(cd, unsubscribed)
        /\ cdArgs' = [cdArgs EXCEPT !.unsubscribed = Some(unsubscribed)]
        /\ cdTwice' = (cdTwice \/ Overwrites(cdArgs.unsubscribed, unsubscribed))
        /\ json' = None
        /\ UNCHANGED <<cc, ccArgs, ccTwice>>
        /\ UNCHANGED serviceVars

ChangesNew ==
    /\ cc' = ContactChanges_new
    /\ ccArgs' = [email |-> None, first_name |-> None, last_name |-> None,
                  unsubscribed |-> None]
    /\ ccTwice' = FALSE
    /\ json' = None
    /\ UNCHANGED <<cd, cdArgs, cdTwice>>
    /\ UNCHANGED serviceVars

ChangesWithEmail ==
    \E email \in Emails :
        /\ cc' = ContactChanges_with_email(cc, email)
        /\ ccArgs' = [ccArgs EXCEPT !.email = Some(email)]
        /\ ccTwice' = (ccTwice \/ Overwrites(ccArgs.email, email))
        /\ json' = None
        /\ UNCHANGED <<cd, cdArgs, cdTwice>>
        /\ UNCHANGED serviceVars

ChangesWithFirstName ==
    \E name \in Names :
        /\ cc' = ContactChanges_with_first_name(cc, name)
        /\ ccArgs' = [ccArgs EXCEPT !.first_name = Some(name)]
        /\ ccTwice' = (ccTwice \/ Overwrites(ccArgs.first_name, name))
        /\ json' = None
        /\ UNCHANGED <<cd, cdArgs, cdTwice>>
        /\ UNCHANGED serviceVars

ChangesWithLastName ==
    \E name \in Names :
        /\ cc' = ContactChanges_with_last_name(cc, name)
        /\ ccArgs' = [ccArgs EXCEPT !.last_name = Some(name)]
        /\ ccTwice' = (ccTwice \/ Overwrites(ccArgs.last_name, name))
        /\ json' = None
        /\ UNCHANGED <<cd, cdArgs, cdTwice>>
        /\ UNCHANGED serviceVars

ChangesWithUnsubscribed ==
    \E unsubscribed \in BOOLEAN :
        /\ cc' = ContactChanges_with_unsubscribed(cc, unsubscribed)
        /\ ccArgs' = [ccArgs EXCEPT !.unsubscribed = Some(unsubscribed)]
        /\ ccTwice' = (ccTwice \/ Overwrites(ccArgs.unsubscribed, unsubscribed))
        /\ json' = None
        /\ UNCHANGED <<cd, cdArgs, cdTwice>>
        /\ UNCHANGED serviceVars

SerializeData ==
    /\ json' = Some([of |-> "ContactData", body |-> SerializeContactData(cd)])
    /\ UNCHANGED <<cd, cc, cdArgs, ccArgs, cdTwice, ccTwice>>
    /\ UNCHANGED serviceVars

SerializeChanges ==
    /\ json' = Some([of |-> "ContactChanges", body |-> SerializeContactChanges(cc)])
    /\ UNCHANGED <<cd, cc, cdArgs, ccArgs, cdTwice, ccTwice>>
    /\ UNCHANGED serviceVars

NextBuilder ==
    \/ DataNew
    \/ DataWithFirstName
    \/ DataWithLastName
    \/ DataWithUnsubscribed
    \/ ChangesNew
    \/ ChangesWithEmail
    \/ ChangesWithFirstName
    \/ ChangesWithLastName
    \/ ChangesWithUnsubscribed
    \/ SerializeData
    \/ SerializeChanges

SpecBuilder == Init /\ [][NextBuilder]_vars

(***************************************************************************)
(* Properties.                                                             *)
(***************************************************************************)
Done(c) == pc[c] = "done"
Res(c) == unwrap(result[c])
ContactOf(r) ==
    [id |-> ContactId_new(r.id), email |-> r.email, first_name |-> r.first_name,
     last_name |-> r.last_name, unsubscribed |-> r.unsubscribed,
     created_at |-> r.created_at]
OnlyUnsubscribedTrue ==
    [email |-> None, first_name |-> None, last_name |-> None, unsubscribed |-> Some(TRUE)]

\* The caller's previous call was a successful update of only unsubscribed = true
\* and its current call is a completed get of the same contact in the same
\* audience, with no mutation applied by the provider in between.
GetFollowsUpdate(c) ==
    /\ Done(c)
    /\ call[c].op = "get"
    /\ ~ is_none(prev[c])
    /\ unwrap(prev[c]).call.op = "update"
    /\ unwrap(prev[c]).call.update = OnlyUnsubscribedTrue
    /\ unwrap(prev[c]).result.ok
    /\ unwrap(prev[c]).call.contact = call[c].contact
    /\ unwrap(prev[c]).call.audience = call[c].audience
    /\ unwrap(prev[c]).at = ghost[c].at
    /\ ghost[c].fault = "none"

\* C1: after update(contact, audience, {unsubscribed: true}) has returned
\* success, a following get of the same contact (reaching the provider, with no
\* other mutation in between) returns a Contact with unsubscribed = true whose
\* email, first_name and last_name are those the contact had before the update.
C1_UpdateThenGet ==
    \A c \in Callers :
        GetFollowsUpdate(c) =>
            LET before == unwrap(unwrap(prev[c]).pre)
            IN  /\ Res(c).ok
                /\ Res(c).value.unsubscribed = TRUE
                /\ Res(c).value.email = before.email
                /\ Res(c).value.first_name = before.first_name
                /\ Res(c).value.last_name = before.last_name

C1_Witness ==
    \E c \in Callers :
        /\ GetFollowsUpdate(c)
        /\ unwrap(unwrap(prev[c]).pre).unsubscribed = FALSE
        /\ unwrap(unwrap(prev[c]).pre).first_name = "Ann"
        /\ Res(c).ok
        /\ Res(c).value.first_name = "Ann"
        /\ Res(c).value.unsubscribed = TRUE

\* The caller's previous call was a create that made a new contact and returned
\* its id, and its current call is a completed get with that id and audience,
\* with no mutation applied by the provider in between.
GetFollowsCreate(c) ==
    /\ Done(c)
    /\ call[c].op = "get"
    /\ ~ is_none(prev[c])
    /\ unwrap(prev[c]).call.op = "create"
    /\ unwrap(prev[c]).result.ok
    /\ unwrap(prev[c]).applied
    /\ unwrap(prev[c]).result.value = call[c].contact
    /\ unwrap(prev[c]).call.audience = call[c].audience
    /\ unwrap(prev[c]).at = ghost[c].at
    /\ ghost[c].fault = "none"

EmailAbsent(c) ==
    \A i \in 1..Len(ghost[c].seen[call[c].audience]) :
        ghost[c].seen[call[c].audience][i].email # call[c].contact.email

\* C2: a create of a new email against a valid audience, reaching the provider
\* and answered, returns a non-empty ContactId; a following get with that id and
\* audience returns a Contact with the created email, unsubscribed = false when
\* the data set none, and a non-empty created_at.
C2_CreateThenGet ==
    \A c \in Callers :
        /\ (/\ Done(c) /\ call[c].op = "create" /\ ghost[c].fault = "none"
            /\ call[c].audience \in ValidAudiences /\ EmailAbsent(c))
           => (Res(c).ok /\ as_ref(Res(c).value) # "")
        /\ GetFollowsCreate(c) =>
            LET data == unwrap(prev[c]).call.contact
            IN  /\ Res(c).ok
                /\ Res(c).value.id = unwrap(prev[c]).result.value
                /\ Res(c).value.email = data.email
                /\ is_none(data.unsubscribed) => Res(c).value.unsubscribed = FALSE
                /\ Res(c).value.created_at # ""

C2_Witness ==
    \E c \in Callers :
        /\ GetFollowsCreate(c)
        /\ unwrap(prev[c]).call.contact = ContactData_new("a@b.com")
        /\ Res(c).ok
        /\ Res(c).value.email = "a@b.com"
        /\ Res(c).value.unsubscribed = FALSE

\* The contact a delete names, in the provider's state when the request arrived.
DeleteTargets(c) ==
    {i \in 1..Len(ghost[c].seen[call[c].audience]) :
        \/ ghost[c].seen[call[c].audience][i].id = AsRefStr(call[c].email_or_id)
        \/ ghost[c].seen[call[c].audience][i].email = AsRefStr(call[c].email_or_id)}

\* C3: delete of an existing contact, named by its ContactId or by its email,
\* succeeds when the request reaches the provider and is answered; every get
\* started after a delete of that contact has returned success fails, with the
\* not-found status unless the transport failed.
C3_DeleteThenGet ==
    \A c \in Callers :
        /\ (/\ Done(c) /\ call[c].op = "delete" /\ ghost[c].fault = "none"
            /\ DeleteTargets(c) # {})
           => Res(c).ok
        /\ (/\ Done(c) /\ call[c].op = "get"
            /\ as_ref(call[c].contact) \in ghost[c].known)
           => /\ ~ Res(c).ok
              /\ Res(c).error \in {StatusError(404), TransportError}
              /\ ghost[c].fault = "none" => Res(c).error = StatusError(404)

C3_Witness ==
    \E c \in Callers :
        /\ Done(c)
        /\ call[c].op = "get"
        /\ as_ref(call[c].contact) \in ghost[c].known
        /\ ~ is_none(prev[c])
        /\ unwrap(prev[c]).call.op = "delete"
        /\ unwrap(prev[c]).call.email_or_id = <<"str", "a@b.com">>
        /\ unwrap(prev[c]).result.ok
        /\ ~ Res(c).ok
        /\ Res(c).error = StatusError(404)

\* C4: creates for distinct emails new to the audience that run concurrently
\* against it each succeed, whatever the interleaving of their requests and
\* responses, and the ids they return are pairwise distinct.
C4_ConcurrentCreates ==
    /\ \A c \in Callers :
        (/\ Done(c) /\ call[c].op = "create" /\ ghost[c].conc
         /\ ghost[c].fault = "none" /\ EmailAbsent(c))
        => Res(c).ok
    /\ \A c, d \in Callers :
        (/\ c # d /\ Done(c) /\ Done(d)
         /\ call[c].op = "create" /\ call[d].op = "create"
         /\ call[c].contact.email # call[d].contact.email
         /\ EmailAbsent(c) /\ EmailAbsent(d)
         /\ Res(c).ok /\ Res(d).ok)
        => as_ref(Res(c).value) # as_ref(Res(d).value)

C4_Witness ==
    \E c, d \in Callers :
        /\ c # d /\ Done(c) /\ Done(d)
        /\ call[c].op = "create" /\ call[d].op = "create"
        /\ ghost[c].conc /\ ghost[d].conc
        /\ call[c].audience = call[d].audience
        /\ call[c].contact.email # call[d].contact.email
        /\ Res(c).ok /\ Res(d).ok
        /\ as_ref(Res(c).value) # as_ref(Res(d).value)

\* C5: list of a valid audience, reaching the provider and answered, returns as
\* a success exactly the contacts the provider holds for the audience, in the
\* provider's order: the empty sequence when no contact was ever stored, one
\* contact after a single create.
C5_List ==
    \A c \in Callers :
        (/\ Done(c) /\ call[c].op = "list" /\ ghost[c].fault = "none"
         /\ call[c].audience \in ValidAudiences)
        => LET held == ghost[c].seen[call[c].audience]
           IN  /\ Res(c).ok
               /\ Res(c).value = [i \in 1..Len(held) |-> ContactOf(held[i])]
               /\ ghost[c].at = 0 => Res(c).value = <<>>
               /\ (/\ ghost[c].at = 1 /\ ~ is_none(prev[c])
                   /\ unwrap(prev[c]).call.op = "create" /\ unwrap(prev[c]).applied
                   /\ unwrap(prev[c]).call.audience = call[c].audience)
                  => Len(Res(c).value) = 1

C5_Witness ==
    \E c \in Callers :
        /\ Done(c) /\ call[c].op = "list" /\ ghost[c].fault = "none"
        /\ Res(c).ok
        /\ Len(Res(c).value) = 2
        /\ Res(c).value[1].id = ContactId_new("c_1")
        /\ Res(c).value[2].id = ContactId_new("c_2")

Resumed(c) == pc[c] = "receiving" /\ pc'[c] # "receiving"
Returning(c) == pc[c] \in {"receiving", "reading"} /\ pc'[c] = "done"

\* C6: when send reports an error (a transport failure or a non-success
\* status), the operation returns that same error, without decoding a body,
\* having sent one request and without sending another: no retry, no fallback
\* value, no partial result.
C6_ErrorsSurfaceUnchanged ==
    [][\A c \in Callers :
        (Resumed(c) /\ ~ unwrap(response[c]).ok) =>
            /\ pc'[c] = "done"
            /\ result'[c] = Some(Err(unwrap(response[c]).error))
            /\ ghost'[c].decoded = FALSE
            /\ ghost'[c].sends = 1
            /\ request'[c] = request[c]
            /\ store' = store]_vars

C6_Witness ==
    \E c \in Callers :
        /\ Done(c)
        /\ call[c].op = "list"
        /\ ~ Res(c).ok
        /\ Res(c).error = StatusError(404)
        /\ ~ ghost[c].decoded

\* C9: every operation's request has the method and path of the contract:
\* create POST and list GET on /audiences/{audience}/contacts; get GET, update
\* PATCH and delete DELETE on /audiences/{audience}/contacts/{segment}, the
\* segment being the ContactId's string, or for delete the caller's string as
\* given; only create and update carry a body.
C9_MethodAndPath ==
    \A c \in Callers :
        pc[c] # "idle" =>
            LET req == unwrap(request[c])
                coll == "/audiences/" \o call[c].audience \o "/contacts"
            IN  CASE call[c].op = "create" ->
                        /\ req.method = "POST" /\ req.path = coll
                        /\ ~ is_none(req.body)
                  [] call[c].op = "list" ->
                        /\ req.method = "GET" /\ req.path = coll
                        /\ is_none(req.body)
                  [] call[c].op = "get" ->
                        /\ req.method = "GET"
                        /\ req.path = coll \o "/" \o call[c].contact.inner
                        /\ is_none(req.body)
                  [] call[c].op = "update" ->
                        /\ req.method = "PATCH"
                        /\ req.path = coll \o "/" \o call[c].contact.inner
                        /\ ~ is_none(req.body)
                  [] call[c].op = "delete" ->
                        /\ req.method = "DELETE"
                        /\ req.path = coll \o "/" \o
                              (IF call[c].email_or_id[1] = "str"
                               THEN call[c].email_or_id[2]
                               ELSE call[c].email_or_id[2].inner)
                        /\ is_none(req.body)

C9_Witness ==
    \E c \in Callers :
        /\ pc[c] = "sending"
        /\ call[c].op = "delete"
        /\ call[c].email_or_id = <<"str", "a@b.com">>
        /\ unwrap(request[c]).method = "DELETE"
        /\ unwrap(request[c]).path = "/audiences/aud_1/contacts/a@b.com"

\* The shape the contract gives each success body.
HasId(body) == "id" \in Keys(body) /\ body["id"][1] = "string"
HasContactFields(obj) ==
    /\ \A k \in {"id", "email", "first_name", "last_name", "created_at"} :
          k \in Keys(obj) /\ obj[k][1] = "string"
    /\ "unsubscribed" \in Keys(obj) /\ obj["unsubscribed"][1] = "bool"
HasContactList(body) ==
    /\ "data" \in Keys(body) /\ body["data"][1] = "array"
    /\ \A i \in 1..Len(body["data"][2]) : HasContactFields(body["data"][2][i])
Shaped(op, body) ==
    CASE op \in {"create", "update"} -> HasId(body)
      [] op = "get" -> HasContactFields(body)
      [] op = "list" -> HasContactList(body)

\* C10: on a success-status response, create, get, update and list return a
\* decode error exactly when the body misses or mistypes an expected field (the
\* id for create and update, any of the six Contact fields for get, any of them
\* in any element of data for list); delete returns success whatever the body,
\* without reading it.
C10_DecodeErrors ==
    [][\A c \in Callers :
        /\ (Resumed(c) /\ unwrap(response[c]).ok) =>
              IF call[c].op = "delete"
              THEN pc'[c] = "done" /\ ghost'[c].decoded = FALSE
              ELSE pc'[c] = "reading"
        /\ (Returning(c) /\ unwrap(response[c]).ok) =>
              IF call[c].op = "delete"
              THEN result'[c] = Some(Ok("unit"))
              ELSE IF Shaped(call[c].op, unwrap(response[c]).value.body)
                   THEN unwrap(result'[c]).ok
                   ELSE result'[c] = Some(Err(DecodeError))]_vars

C10_Witness ==
    \E c \in Callers :
        /\ Done(c)
        /\ call[c].op = "update"
        /\ ghost[c].fault = "body"
        /\ ghost[c].applied
        /\ ~ Res(c).ok
        /\ Res(c).error = DecodeError

(***************************************************************************)
(* Properties of the builders and of serialization, under SpecBuilder.     *)
(***************************************************************************)
SetFields(v, fields) == {k \in fields : ~ is_none(v[k])}
NoNull(body) == \A k \in Keys(body) : body[k] # JNull

\* C7: the serialized body of a ContactData or ContactChanges has a key for an
\* optional field exactly when the field has a value, and no null: email alone
\* for a ContactData with only email, all four keys when all four are set, no
\* key for ContactChanges::new().
C7_OmitAbsent ==
    ~ is_none(json) =>
        LET body == unwrap(json).body
        IN  /\ NoNull(body)
            /\ unwrap(json).of = "ContactData" =>
                  /\ Keys(body) = {"email"} \cup
                        SetFields(cd, {"first_name", "last_name", "unsubscribed"})
                  /\ cd = ContactData_new(cd.email) => Keys(body) = {"email"}
            /\ unwrap(json).of = "ContactChanges" =>
                  /\ Keys(body) =
                        SetFields(cc, {"email", "first_name", "last_name", "unsubscribed"})
                  /\ cc = ContactChanges_new => body = EmptyObject

C7_Witness ==
    /\ ~ is_none(json)
    /\ unwrap(json).of = "ContactData"
    /\ cd = ContactData_new("a@b.com")
    /\ Keys(unwrap(json).body) = {"email"}

\* C8: after any chain of mutators each field holds the value last passed to
\* its mutator, or its value at construction when its mutator was not called.
C8_LastValueWins ==
    /\ cd.email = cdArgs.email
    /\ \A k \in {"first_name", "last_name", "unsubscribed"} : cd[k] = cdArgs[k]
    /\ \A k \in {"email", "first_name", "last_name", "unsubscribed"} : cc[k] = ccArgs[k]

C8_Witness ==
    /\ cdTwice
    /\ cd.first_name = Some("Zoe")
    /\ is_none(cd.last_name)
    /\ cd.unsubscribed = Some(FALSE)

====
